---- MODULE Spec2Model ----
(***************************************************************************)
(* Model of src/dev/src/command/connection/ManageTemplateReposCmd.ts:      *)
(* the singleton "Template Repositories" webview panel, its refresh, the   *)
(* dispatch of webview messages to the backend, and the URL validator.     *)
(*                                                                         *)
(* Every asynchronous function is cut at its awaits: the synchronous part  *)
(* up to an await is one step, the settling of the awaited promise (the    *)
(* backend answering, the user answering a prompt) is one step, and the    *)
(* continuation up to the next await (or the end) is one step.             *)
(* Strings that the code inspects (URLs) are sequences of one-character    *)
(* strings.  The debugging dump of refreshPage (lines 105-111, taken only  *)
(* when the CW_ENV environment variable says "dev") changes no state of    *)
(* the panel and is left out.                                              *)
(***************************************************************************)
EXTENDS Integers, Sequences, FiniteSets, Bags, TLC

VARIABLES
    manageReposPage,    \* the module-level singleton: 0 (undefined) or a panel
    panels,             \* every webview panel created so far, by creation order
    backend,            \* per connection, the backend's template repository list
    tasks,              \* the bag of refreshPage/handleWebviewMessage invocations
    cmds,               \* number of calls of the command so far
    posted,             \* number of webview messages delivered so far
    fetches,            \* number of fetchRepositoryList calls issued so far
    typed,              \* the text in the URL input box under validation
    shown               \* the validation message the input box shows for it

vars == <<manageReposPage, panels, backend, tasks, cmds, posted, fetches,
          typed, shown>>

\* the URL input box whose validateInput is validateRepoInput
inputBox == <<typed, shown>>

----------------------------------------------------------------------------
(* Bounds of the model *)

\* calls of manageTemplateReposCmd in a run
MaxCmds == 2
\* webview messages delivered in a run
MaxMsgs == 2
\* invocations in progress when a webview message is delivered
MaxRunning == 2

----------------------------------------------------------------------------
(* Strings *)

Letters ==
    {"a","b","c","d","e","f","g","h","i","j","k","l","m",
     "n","o","p","q","r","s","t","u","v","w","x","y","z"}

Digits == {"0","1","2","3","4","5","6","7","8","9"}

Whitespace == {" "}

\* s.startsWith(prefix)
StartsWith(s, prefix) ==
    /\ Len(prefix) <= Len(s)
    /\ SubSeq(s, 1, Len(prefix)) = prefix

\* s.includes(part)
Includes(s, part) ==
    \E i \in 1..(Len(s) - Len(part) + 1) : SubSeq(s, i, i + Len(part) - 1) = part

\* s.trim()
Trim(s) ==
    LET keep == {i \in 1..Len(s) : s[i] \notin Whitespace}
        Min(S) == CHOOSE x \in S : \A y \in S : x <= y
        Max(S) == CHOOSE x \in S : \A y \in S : x >= y
    IN  IF keep = {} THEN <<>> ELSE SubSeq(s, Min(keep), Max(keep))

\* index of the first occurrence of character ch in s, 0 when there is none
IndexOf(s, ch) ==
    LET at == {i \in 1..Len(s) : s[i] = ch}
    IN  IF at = {} THEN 0 ELSE CHOOSE i \in at : \A j \in at : i <= j

\* s without its leading "/" characters
StripSlashes(s) ==
    LET rest == {i \in 1..Len(s) : s[i] # "/"}
    IN  IF rest = {} THEN <<>>
        ELSE SubSeq(s, CHOOSE i \in rest : \A j \in rest : i <= j, Len(s))

Http == <<"h","t","t","p">>
Https == <<"h","t","t","p","s">>
Raw == <<"r","a","w">>
Github == <<"g","i","t","h","u","b">>
Bitbucket == <<"b","i","t","b","u","c","k","e","t">>
Gitlab == <<"g","i","t","l","a","b">>
Ftp == <<"f","t","p">>

----------------------------------------------------------------------------
(* new URL(input): the scheme, host and path of an absolute URL *)

NotAUrl == [ok |-> FALSE, protocol |-> <<>>, host |-> <<>>, pathname |-> <<>>]

\* host and path of what follows the scheme's colon
Authority(s) ==
    LET cut == IndexOf(s, "/")
    IN  IF cut = 0 THEN [host |-> s, pathname |-> <<>>]
        ELSE [host |-> SubSeq(s, 1, cut - 1), pathname |-> SubSeq(s, cut, Len(s))]

ParseUrl(input) ==
    LET s == Trim(input)
        colon == IndexOf(s, ":")
        scheme == SubSeq(s, 1, colon - 1)
        rest == SubSeq(s, colon + 1, Len(s))
        schemeOk ==
            /\ colon > 1
            /\ s[1] \in Letters
            /\ \A i \in 1..(colon - 1) : s[i] \in Letters \cup Digits \cup {"+", "-", "."}
    IN  IF ~schemeOk THEN NotAUrl
        ELSE IF scheme \in {Http, Https, Ftp}
        THEN \* a special scheme: slashes are skipped and a host is required
             LET a == Authority(StripSlashes(rest))
             IN  IF a.host = <<>> THEN NotAUrl
                 ELSE [ok |-> TRUE, protocol |-> scheme \o <<":">>, host |-> a.host,
                       pathname |-> IF a.pathname = <<>> THEN <<"/">> ELSE a.pathname]
        ELSE IF StartsWith(rest, <<"/", "/">>)
        THEN LET a == Authority(SubSeq(rest, 3, Len(rest)))
             IN  [ok |-> TRUE, protocol |-> scheme \o <<":">>, host |-> a.host,
                  pathname |-> a.pathname]
        ELSE [ok |-> TRUE, protocol |-> scheme \o <<":">>, host |-> <<>>, pathname |-> rest]

----------------------------------------------------------------------------
(* validateRepoInput: a message, or MsgValid for undefined (no message) *)

MsgValid == <<>>

\* the input box before validateInput has run on its text
NotValidated == <<"(not validated)">>
MsgNotHttp == <<"The repository URL must be a valid http(s) URL.">>

getRawLinkMsg(provider) == <<"For ", provider, " URLs, you must use the raw link.">>

\* a validateRepoInput without the hints for the hosting services
validateRepoInput_NoRawCheck(input) ==
    LET asUrl == ParseUrl(input)
    IN  IF ~asUrl.ok \/ asUrl.host = <<>> \/ ~StartsWith(asUrl.protocol, Http)
        THEN MsgNotHttp
        ELSE MsgValid

validateRepoInput(input) ==
    LET asUrl == ParseUrl(input)
    IN  IF ~asUrl.ok \/ asUrl.host = <<>> \/ ~StartsWith(asUrl.protocol, Http)
        THEN MsgNotHttp
        ELSE IF Includes(asUrl.host, Github) /\ ~Includes(asUrl.host, Raw)
        THEN getRawLinkMsg("GitHub")
        ELSE IF Includes(asUrl.host, Bitbucket) /\ ~Includes(asUrl.pathname, Raw)
        THEN getRawLinkMsg("Bitbucket")
        ELSE IF Includes(asUrl.host, Gitlab) /\ ~Includes(asUrl.pathname, Raw)
        THEN getRawLinkMsg("GitLab")
        ELSE MsgValid

----------------------------------------------------------------------------
(* The inputs of the model *)

Connections == {"c1", "c2"}

\* the connections are interchangeable (their backends start equal), so the
\* first call of the command is taken to be for this one
FirstConnection == "c1"

\* "https://x/index.json"
UrlX ==
    <<"h","t","t","p","s",":","/","/","x","/",
      "i","n","d","e","x",".","j","s","o","n">>

\* "https://y/t.json"
UrlY == <<"h","t","t","p","s",":","/","/","y","/","t",".","j","s","o","n">>

\* " https://y/t.json " as a user may paste it
UrlYPadded == <<" ">> \o UrlY \o <<" ">>

\* "https://github.com/o/r"
UrlGithubPage ==
    <<"h","t","t","p","s",":","/","/","g","i","t","h","u","b",".","c","o","m",
      "/","o","/","r">>

\* "not-a-url"
UrlNotAUrl == <<"n","o","t","-","a","-","u","r","l">>

\* what the user may type at the URL prompt
PromptInputs == {UrlX, UrlYPadded, UrlGithubPage, UrlNotAUrl}

\* the texts the validator is applied to: scheme, separator, host and path
ValidateSchemes == {Http, Https, Http \o <<"x">>, Ftp}

ValidateSeparators == {<<":","/","/">>, <<":">>, <<>>}

ValidateHosts ==
    { <<>>, <<"x">>,
      <<"g","i","t","h","u","b",".","c","o","m">>,
      <<"r","a","w",".","g","i","t","h","u","b","u","s","e","r","c","o","n",
        "t","e","n","t",".","c","o","m">>,
      <<"b","i","t","b","u","c","k","e","t",".","o","r","g">>,
      <<"g","i","t","l","a","b",".","c","o","m">> }

ValidatePaths ==
    { <<>>,
      <<"/","o","r","g","/","r","e","p","o","/","i","n","d","e","x",".","j",
        "s","o","n">>,
      <<"/","o","r","g","/","r","e","p","o","/","r","a","w","/","i","n","d",
        "e","x",".","j","s","o","n">> }

\* "https://github.com/org/repo/index.json"
UrlGithubIndex ==
    <<"h","t","t","p","s",":","/","/","g","i","t","h","u","b",".","c","o",
      "m","/","o","r","g","/","r","e","p","o","/","i","n","d","e","x",".",
      "j","s","o","n">>

\* "https://raw.githubusercontent.com/org/repo/index.json"
UrlRawGithubIndex ==
    <<"h","t","t","p","s",":","/","/","r","a","w",".","g","i","t","h","u",
      "b","u","s","e","r","c","o","n","t","e","n","t",".","c","o","m","/",
      "o","r","g","/","r","e","p","o","/","i","n","d","e","x",".","j","s",
      "o","n">>

ValidateInputs ==
    { scheme \o sep \o host \o path :
          scheme \in ValidateSchemes, sep \in ValidateSeparators,
          host \in ValidateHosts, path \in ValidatePaths }
    \cup {UrlNotAUrl, UrlYPadded}

\* what the user may type at the description prompt
DescriptionInputs == {" My Templates "}

NoDescription == "(No description)"

\* description.trim() on the description inputs
TrimDescription(d) == IF d = " My Templates " THEN "My Templates" ELSE d

\* a template repository as the backend reports it (IRawTemplateRepo)
Repo(url, description, enabled, protected) ==
    [url |-> url, description |-> description, enabled |-> enabled,
     protected |-> protected]

\* the backend's list when the extension starts
InitialRepos == <<Repo(UrlX, "Default templates", TRUE, FALSE)>>

\* ManageReposWVMessages
ADD_NEW == "add-new"
DELETE == "delete"
HELP == "help"
REFRESH == "refresh"
ENABLE_DISABLE == "enableOrDisable"

NoData == [url |-> <<>>, repos |-> <<>>]

\* the 'data' of an ENABLE_DISABLE event (IRepoEnablementEvent.repos)
EnablementEvents ==
    { <<[repoID |-> UrlX, enable |-> FALSE]>>,
      <<[repoID |-> UrlX, enable |-> FALSE], [repoID |-> UrlY, enable |-> FALSE]>> }

\* the messages the webview may post (WebviewUtil.IWVMessage)
Messages ==
    {[type |-> ADD_NEW, data |-> NoData],
     [type |-> HELP, data |-> NoData],
     [type |-> REFRESH, data |-> NoData],
     [type |-> "enable-disable", data |-> NoData]}
    \cup {[type |-> DELETE, data |-> [url |-> u, repos |-> <<>>]] : u \in {UrlX}}
    \cup {[type |-> ENABLE_DISABLE, data |-> [url |-> <<>>, repos |-> e]] :
             e \in EnablementEvents}

----------------------------------------------------------------------------
(* The Repository Client's backend (Requester and the backend behind it) *)

HasRepo(list, url) == \E i \in 1..Len(list) : list[i].url = url

\* POST: add one; fails if the URL is already present
CanAdd(list, url) == ~HasRepo(list, url)

BackendAdd(list, url, description) ==
    Append(list, Repo(url, description, TRUE, FALSE))

\* DELETE: remove one; fails if it is absent or protected
CanRemove(list, url) ==
    \E i \in 1..Len(list) : list[i].url = url /\ ~list[i].protected

BackendRemove(list, url) == SelectSeq(list, LAMBDA r : r.url # url)

\* the enablement batch names only repositories of the list
CanEnable(list, repos) == \A k \in 1..Len(repos) : HasRepo(list, repos[k].repoID)

\* the first n entries of the enablement batch applied to the list, in order
RECURSIVE BackendEnable(_, _, _)
BackendEnable(list, repos, n) ==
    IF n = 0 THEN list
    ELSE LET before == BackendEnable(list, repos, n - 1)
         IN  [i \in 1..Len(before) |->
                 IF before[i].url = repos[n].repoID
                 THEN [before[i] EXCEPT !.enabled = repos[n].enable]
                 ELSE before[i]]

\* the View Renderer: the display document of a repository list
generateManageReposHtml(list) == [rendered |-> TRUE, rows |-> list]

\* webview.html of a panel nothing was written to
BlankHtml == [rendered |-> FALSE, rows |-> <<>>]

----------------------------------------------------------------------------
(* Invocations of refreshPage and handleWebviewMessage *)

\* the positions at which an invocation waits for the backend
CallPcs == {"enable", "add", "remove", "fetch"}

\* the invocation of handleWebviewMessage for message msg by the handler bound
\* to connection conn (kind "msg"), or of refreshPage by manageTemplateReposCmd
\* (kind "cmd"), before its first statement
NewTask(kind, conn, msg, page) ==
    [kind |-> kind, conn |-> conn, type |-> msg.type, data |-> msg.data,
     page |-> page,             \* manageReposPage when the invocation started
     pc |-> "start",
     resp |-> "none",           \* the awaited call: "pending", "ok" or "err"
     list |-> <<>>,             \* the list the last fetch returned
     seq |-> 0,                 \* the issue number of its fetch
     repoUrl |-> <<>>, description |-> "",
     calls |-> <<>>,            \* Repository Client calls issued, in order
     prompts |-> 0,             \* input boxes shown
     mutated |-> "none",        \* how the mutating call ended: "ok" or "err"
     fetched |-> "none",        \* how the fetch ended: "ok" or "err"
     wrote |-> 0,               \* the panel whose html this invocation replaced
     raised |-> 0,              \* exceptions raised in this invocation
     logs |-> <<>>,             \* Log.e calls
     notes |-> <<>>,            \* notifications shown to the user
     outcome |-> "running"]     \* of the promise: "resolved" or "rejected"

\* the function returns (break, return, or falling off the end)
Finish(t) == [t EXCEPT !.pc = "done", !.resp = "none", !.outcome = "resolved"]

\* the promise of an invocation nobody awaits or catches is rejected
Reject(t) == [t EXCEPT !.pc = "done", !.resp = "none", !.outcome = "rejected"]

\* a refreshPage without the test of manageReposPage: it always fetches
RefreshPageCall_NoCheck(t, page) ==
    [t EXCEPT !.pc = "fetch", !.resp = "pending", !.calls = Append(@, "list"),
              !.seq = fetches + 1]

\* refreshPage up to its await, and what its caller does if it returns at once;
\* page is the value of manageReposPage when it is called
RefreshPageCall(t, page) ==
    IF page = 0
    THEN Finish([t EXCEPT !.logs =
                    Append(@, "Refreshing manage repos page but it doesn't exist")])
    ELSE [t EXCEPT !.pc = "fetch", !.resp = "pending", !.calls = Append(@, "list"),
                   !.seq = fetches + 1]

\* a catch (err) of the whole switch that throws the error on
OuterCatch_Rethrow(t, page) == Reject(t)

\* catch (err) of the whole switch
OuterCatch(t, page) ==
    Finish([t EXCEPT !.logs = @ \o
               <<"Error processing message from manage templates webview",
                 "Message was">>])

\* a catch (err) of the ADD_NEW case that issues the add request again
AddCatch_Retry(t, page) ==
    [t EXCEPT !.pc = "add", !.resp = "pending", !.calls = Append(@, "add"),
              !.notes = Append(@, "Error adding new template repository")]

\* catch (err) of the ADD_NEW case
AddCatch(t, page) ==
    Finish([t EXCEPT
        !.notes = Append(@, "Error adding new template repository"),
        !.logs = Append(@, "Error adding new template repo")])

\* a catch (err) of the DELETE case that refreshes the page
DeleteCatch_Refresh(t, page) == RefreshPageCall(t, page)

\* catch (err) of the DELETE case
DeleteCatch(t, page) ==
    Finish([t EXCEPT
        !.notes = Append(@, "Error deleting template repository"),
        !.logs = Append(@, "Error removing template repo")])

\* a catch (err) of the ENABLE_DISABLE case that only swallows the error
EnableCatch_Swallow(t, page) == Finish(t)

\* catch (err) of the ENABLE_DISABLE case
EnableCatch(t, page) == RefreshPageCall(t, page)

\* where an exception raised at the position of invocation t arrives
Raise(t, page) ==
    LET e == [t EXCEPT !.raised = @ + 1]
    IN  IF t.kind = "cmd" THEN Reject(e)
        ELSE IF t.type = ADD_NEW /\ t.pc \in {"add", "fetch"} THEN AddCatch(e, page)
        ELSE IF t.type = DELETE /\ t.pc \in {"remove", "fetch"} THEN DeleteCatch(e, page)
        ELSE IF t.type = ENABLE_DISABLE /\ t.pc = "enable" THEN EnableCatch(e, page)
        ELSE OuterCatch(e, page)

\* after await Requester.enableTemplateRepos: break
EnableTry(t, page) == Finish(t)

\* the ADD_NEW case without its refreshPage
AddTry_NoRefresh(t, page) == Finish(t)

\* after await Requester.addTemplateRepo: refreshPage
AddTry(t, page) == RefreshPageCall(t, page)

\* after await Requester.removeTemplateRepo: refreshPage
DeleteTry(t, page) == RefreshPageCall(t, page)

\* case HELP
HelpEvent(t, page) ==
    Finish([t EXCEPT !.notes = Append(@,
        "More information about this page, or open a webpage, probably")])

\* a default case that falls into the REFRESH case
UnknownEvent_Refresh(t, page) == RefreshPageCall(t, page)

\* default
UnknownEvent(t, page) ==
    Finish([t EXCEPT !.logs = Append(@,
        "Received unknown event from manage templates webview:")])

\* a handleWebviewMessage whose switch names the enablement case "enable-disable"
HandlerStart_ProtocolNames(conn, msg, page) ==
    LET t == NewTask("msg", conn, msg, page)
    IN  CASE msg.type = "enable-disable" ->
                [t EXCEPT !.pc = "enable", !.resp = "pending",
                          !.calls = Append(@, "enable")]
          [] msg.type = ADD_NEW ->
                [t EXCEPT !.pc = "promptUrl", !.prompts = @ + 1]
          [] msg.type = DELETE ->
                [t EXCEPT !.pc = "remove", !.resp = "pending",
                          !.calls = Append(@, "remove")]
          [] msg.type = HELP ->
                HelpEvent(t, page)
          [] msg.type = REFRESH ->
                RefreshPageCall(t, page)
          [] OTHER ->
                UnknownEvent(t, page)

\* handleWebviewMessage up to its first await
HandlerStart(conn, msg, page) ==
    LET t == NewTask("msg", conn, msg, page)
    IN  CASE msg.type = ENABLE_DISABLE ->
                [t EXCEPT !.pc = "enable", !.resp = "pending",
                          !.calls = Append(@, "enable")]
          [] msg.type = ADD_NEW ->
                [t EXCEPT !.pc = "promptUrl", !.prompts = @ + 1]
          [] msg.type = DELETE ->
                [t EXCEPT !.pc = "remove", !.resp = "pending",
                          !.calls = Append(@, "remove")]
          [] msg.type = HELP ->
                HelpEvent(t, page)
          [] msg.type = REFRESH ->
                RefreshPageCall(t, page)
          [] OTHER ->
                UnknownEvent(t, page)

----------------------------------------------------------------------------
(* The state machine *)

NoFetch == [seq |-> 0, list |-> <<>>]

\* a panel on which onDidDispose was not registered
NewPanel_NoDisposeHandler(conn) ==
    [html |-> BlankHtml, disposed |-> FALSE, latest |-> NoFetch, reveals |-> 1,
     onDidDispose |-> 0, onDidReceiveMessage |-> <<conn>>]

NewPanel(conn) ==
    [html |-> BlankHtml, disposed |-> FALSE,
     latest |-> NoFetch,                \* the latest-issued fetch shown so far
     reveals |-> 1,                     \* calls of reveal()
     onDidDispose |-> 1,                \* disposal handlers registered
     onDidReceiveMessage |-> <<conn>>]  \* message handlers, by bound connection

\* a panel the host has disposed: its webview and its handlers are gone
DisposedPanel ==
    [html |-> BlankHtml, disposed |-> TRUE, latest |-> NoFetch,
     reveals |-> 0, onDidDispose |-> 0,
     onDidReceiveMessage |-> <<>>]

LivePanels == {p \in DOMAIN panels : ~panels[p].disposed}

\* the invocations still in progress: one that has completed is kept in tasks
\* for the state its last step leads to, and is gone after the next step
Running == {t \in BagToSet(tasks) : t.pc # "done"}

RunningBag == [t \in Running |-> tasks[t]]

\* the fetch counter after a step that leads an invocation to t2
Issued(t2) == IF t2.seq > fetches THEN t2.seq ELSE fetches

\* a new invocation, at t2 after its synchronous part
Start(t2) ==
    /\ tasks' = RunningBag (+) SetToBag({t2})
    /\ fetches' = Issued(t2)

\* invocation t of the bag of running invocations continues as t2
Continue(t, t2) ==
    /\ tasks' = (RunningBag (-) SetToBag({t})) (+) SetToBag({t2})
    /\ fetches' = Issued(t2)

\* the invocations that completed in the last step
Completed == {t \in BagToSet(tasks) : t.pc = "done"}

Init ==
    /\ manageReposPage = 0
    /\ panels = <<>>
    /\ backend = [c \in Connections |-> InitialRepos]
    /\ tasks = EmptyBag
    /\ cmds = 0
    /\ posted = 0
    /\ fetches = 0
    /\ typed = <<>>
    /\ shown = NotValidated

\* manageReposPage.reveal() of the existing page, and return
RevealExisting ==
    /\ panels' = [panels EXCEPT ![manageReposPage].reveals = @ + 1]
    /\ tasks' = RunningBag
    /\ UNCHANGED <<manageReposPage, backend, posted, fetches>>

\* createWebviewPanel, reveal, onDidDispose, refreshPage up to its await,
\* onDidReceiveMessage
CreatePanel(connection) ==
    LET page == Len(panels) + 1
    IN  /\ panels' = Append(panels, NewPanel(connection))
        /\ manageReposPage' = page
        /\ Start(RefreshPageCall(
               NewTask("cmd", connection, [type |-> "", data |-> NoData], page), page))
        /\ UNCHANGED <<backend, posted>>

\* the command without the test of manageReposPage: it always creates a panel
ManageTemplateReposCmd_AlwaysCreate(connection) ==
    /\ cmds < MaxCmds
    /\ cmds = 0 => connection = FirstConnection
    /\ cmds' = cmds + 1
    /\ CreatePanel(connection)
    /\ UNCHANGED inputBox

\* the command: manageTemplateReposCmd(connection)
ManageTemplateReposCmd(connection) ==
    /\ cmds < MaxCmds
    /\ cmds = 0 => connection = FirstConnection
    /\ cmds' = cmds + 1
    /\ IF manageReposPage # 0 THEN RevealExisting ELSE CreatePanel(connection)
    /\ UNCHANGED inputBox

\* the user closes the panel: the host disposes it and runs onDidDispose
OnDidDispose(p) ==
    /\ p \in LivePanels
    /\ panels' = [panels EXCEPT ![p] = DisposedPanel]
    /\ manageReposPage' = IF panels[p].onDidDispose > 0 THEN 0 ELSE manageReposPage
    /\ tasks' = RunningBag
    /\ UNCHANGED <<backend, cmds, posted, fetches, inputBox>>

\* the webview of panel p posts msg: the registered handler is invoked
OnDidReceiveMessage(p, msg) ==
    /\ p \in LivePanels
    /\ posted < MaxMsgs
    /\ Cardinality(Running) < MaxRunning
    /\ posted' = posted + 1
    /\ \E h \in DOMAIN panels[p].onDidReceiveMessage :
         Start(HandlerStart(panels[p].onDidReceiveMessage[h], msg, manageReposPage))
    /\ UNCHANGED <<manageReposPage, panels, backend, cmds, inputBox>>

\* a promptForNewRepo that goes on to the description when the URL input box
\* was cancelled
PromptUrl_CancelContinues(t) ==
    /\ t.pc = "promptUrl"
    /\ \/ Continue(t, [t EXCEPT !.pc = "promptDesc", !.prompts = @ + 1])
       \/ \E input \in PromptInputs :
            /\ validateRepoInput(input) = MsgValid
            /\ Continue(t,
                   [t EXCEPT !.repoUrl = Trim(input), !.pc = "promptDesc",
                             !.prompts = @ + 1])
    /\ UNCHANGED <<manageReposPage, panels, backend, cmds, posted, inputBox>>

\* a URL input box without validateInput: every input can be submitted
PromptUrl_NoValidation(t) ==
    /\ t.pc = "promptUrl"
    /\ \/ Continue(t, Finish(t))
       \/ \E input \in PromptInputs :
            Continue(t,
                [t EXCEPT !.repoUrl = Trim(input), !.pc = "promptDesc",
                          !.prompts = @ + 1])
    /\ UNCHANGED <<manageReposPage, panels, backend, cmds, posted, inputBox>>

\* promptForNewRepo: the user answers the URL input box (validateInput lets
\* only valid inputs be submitted) or cancels it
PromptUrl(t) ==
    /\ t.pc = "promptUrl"
    /\ \/ Continue(t, Finish(t))
       \/ \E input \in PromptInputs :
            /\ validateRepoInput(input) = MsgValid
            /\ Continue(t,
                   [t EXCEPT !.repoUrl = Trim(input), !.pc = "promptDesc",
                             !.prompts = @ + 1])
    /\ UNCHANGED <<manageReposPage, panels, backend, cmds, posted, inputBox>>

\* promptForNewRepo: the user answers or cancels the description input box,
\* and the handler issues the add request
PromptDescription(t) ==
    /\ t.pc = "promptDesc"
    /\ \E description \in {NoDescription} \cup
                          {TrimDescription(d) : d \in DescriptionInputs} :
         Continue(t,
             [t EXCEPT !.description = description, !.pc = "add",
                       !.resp = "pending", !.calls = Append(@, "add")])
    /\ UNCHANGED <<manageReposPage, panels, backend, cmds, posted, inputBox>>

\* showInputBox rejects
PromptFails(t) ==
    /\ t.pc \in {"promptUrl", "promptDesc"}
    /\ Continue(t, Raise(t, manageReposPage))
    /\ UNCHANGED <<manageReposPage, panels, backend, cmds, posted, inputBox>>

\* the backend serves the request invocation t waits for
BackendAnswers(t) ==
    LET list == backend[t.conn]
        answer(resp, newList) ==
            /\ backend' = [backend EXCEPT ![t.conn] = newList]
            /\ Continue(t, [t EXCEPT !.resp = resp])
    IN  /\ t.pc \in CallPcs
        /\ t.resp = "pending"
        /\ CASE t.pc = "fetch" ->
                  /\ Continue(t, [t EXCEPT !.resp = "ok", !.list = list])
                  /\ UNCHANGED backend
             [] t.pc = "add" ->
                  IF CanAdd(list, t.repoUrl)
                  THEN answer("ok", BackendAdd(list, t.repoUrl, t.description))
                  ELSE answer("err", list)
             [] t.pc = "remove" ->
                  IF CanRemove(list, t.data.url)
                  THEN answer("ok", BackendRemove(list, t.data.url))
                  ELSE answer("err", list)
             [] t.pc = "enable" ->
                  IF CanEnable(list, t.data.repos)
                  THEN answer("ok", BackendEnable(list, t.data.repos, Len(t.data.repos)))
                  ELSE \E n \in 0..(Len(t.data.repos) - 1) :
                          /\ CanEnable(list, SubSeq(t.data.repos, 1, n))
                          /\ answer("err", BackendEnable(list, t.data.repos, n))
        /\ UNCHANGED <<manageReposPage, panels, cmds, posted, inputBox>>

\* the request invocation t waits for fails on the way (NetworkFailure)
BackendFails(t) ==
    /\ t.pc \in CallPcs
    /\ t.resp = "pending"
    /\ Continue(t, [t EXCEPT !.resp = "err"])
    /\ UNCHANGED <<manageReposPage, panels, backend, cmds, posted, inputBox>>

\* refreshPage without the assignment to webview.html
RefreshPageWrite_NoAssignment(t) ==
    /\ Continue(t, Finish([t EXCEPT !.fetched = "ok", !.wrote = manageReposPage]))
    /\ UNCHANGED panels

\* refreshPage after its await: render the list and replace the panel's html
RefreshPageWrite(t) ==
    LET t2 == [t EXCEPT !.fetched = "ok"]
    IN  IF manageReposPage = 0
        THEN \* manageReposPage.webview of undefined: a TypeError
             /\ Continue(t, Raise(t2, manageReposPage))
             /\ UNCHANGED panels
        ELSE /\ panels' = [panels EXCEPT
                   ![manageReposPage].html = generateManageReposHtml(t.list),
                   ![manageReposPage].latest =
                       IF t.seq > @.seq THEN [seq |-> t.seq, list |-> t.list] ELSE @]
             /\ Continue(t, Finish([t2 EXCEPT !.wrote = manageReposPage]))

\* a refreshPage that blanks the page when fetchRepositoryList has thrown
RefreshPageThrow_Blank(t) ==
    /\ Continue(t, Raise([t EXCEPT !.fetched = "err"], manageReposPage))
    /\ panels' = IF manageReposPage = 0 THEN panels
                 ELSE [panels EXCEPT ![manageReposPage].html = BlankHtml]

\* refreshPage after its await, when fetchRepositoryList has thrown
RefreshPageThrow(t) ==
    /\ Continue(t, Raise([t EXCEPT !.fetched = "err"], manageReposPage))
    /\ UNCHANGED panels

\* the awaited call of invocation t has settled: the code after the await
Resume(t) ==
    /\ t.pc \in CallPcs
    /\ t.resp \in {"ok", "err"}
    /\ CASE t.pc = "fetch" /\ t.resp = "ok" -> RefreshPageWrite(t)
         [] t.pc = "fetch" /\ t.resp = "err" -> RefreshPageThrow(t)
         [] t.pc = "enable" /\ t.resp = "ok" ->
              /\ Continue(t,
                     EnableTry([t EXCEPT !.mutated = "ok"], manageReposPage))
              /\ UNCHANGED panels
         [] t.pc = "add" /\ t.resp = "ok" ->
              /\ Continue(t,
                     AddTry([t EXCEPT !.mutated = "ok"], manageReposPage))
              /\ UNCHANGED panels
         [] t.pc = "remove" /\ t.resp = "ok" ->
              /\ Continue(t,
                     DeleteTry([t EXCEPT !.mutated = "ok"], manageReposPage))
              /\ UNCHANGED panels
         [] t.pc \in {"enable", "add", "remove"} /\ t.resp = "err" ->
              /\ Continue(t, Raise([t EXCEPT !.mutated = "err"], manageReposPage))
              /\ UNCHANGED panels
    /\ UNCHANGED <<manageReposPage, backend, cmds, posted, inputBox>>

Next ==
    \/ \E c \in Connections : ManageTemplateReposCmd(c)
    \/ \E p \in DOMAIN panels : OnDidDispose(p)
    \/ \E p \in DOMAIN panels, msg \in Messages : OnDidReceiveMessage(p, msg)
    \/ \E t \in Running : PromptUrl(t)
    \/ \E t \in Running : PromptDescription(t)
    \/ \E t \in Running : PromptFails(t)
    \/ \E t \in Running : BackendAnswers(t)
    \/ \E t \in Running : BackendFails(t)
    \/ \E t \in Running : Resume(t)

Spec == Init /\ [][Next]_vars

----------------------------------------------------------------------------
(* The validator alone: the URL input box holds a text, and validateInput,   *)
(* which is validateRepoInput, is run on it                                  *)

InitValidate ==
    /\ manageReposPage = 0
    /\ panels = <<>>
    /\ backend = [c \in Connections |-> InitialRepos]
    /\ tasks = EmptyBag
    /\ cmds = 0
    /\ posted = 0
    /\ fetches = 0
    /\ typed \in ValidateInputs
    /\ shown = NotValidated

\* the input box calls validateInput on its text and shows the message
ValidateInput ==
    /\ shown = NotValidated
    /\ shown' = validateRepoInput(typed)
    /\ UNCHANGED <<manageReposPage, panels, backend, tasks, cmds, posted, fetches,
                   typed>>

NextValidate == ValidateInput

SpecValidate == InitValidate /\ [][NextValidate]_vars

----------------------------------------------------------------------------
(* C1 *)

\* the command was called in this step
CmdStep == cmds' = cmds + 1

\* C1: at most one panel is live at any time, and a call of the command made
\* while a panel is live only reveals that panel: it creates no panel, starts
\* no invocation, issues no fetch and registers no further handler.
C1_SingleSession ==
    [][ /\ Cardinality(LivePanels') <= 1
        /\ LivePanels' \subseteq {manageReposPage'}
        /\ (CmdStep /\ LivePanels # {}) =>
              /\ manageReposPage' = manageReposPage
              /\ panels' = [panels EXCEPT ![manageReposPage].reveals = @ + 1]
              /\ tasks' = RunningBag
              /\ fetches' = fetches
              /\ backend' = backend ]_vars

\* the command has been called while a panel was live
C1_Witness ==
    \E p \in LivePanels : panels[p].reveals = 2

----------------------------------------------------------------------------
(* C2 *)

\* C2: the disposal of the live panel clears manageReposPage, and the next
\* call of the command creates a new panel with its own disposal handler,
\* initial refresh and message handler.
C2_ReopenAfterDispose ==
    [][ /\ (\E p \in LivePanels : p \notin LivePanels') => manageReposPage' = 0
        /\ (CmdStep /\ Len(panels) > 0 /\ LivePanels = {}) =>
              LET p == Len(panels) + 1
              IN  /\ Len(panels') = p
                  /\ manageReposPage' = p
                  /\ ~panels'[p].disposed
                  /\ panels'[p].onDidDispose = 1
                  /\ Len(panels'[p].onDidReceiveMessage) = 1
                  /\ fetches' = fetches + 1
                  /\ \E t \in BagToSet(tasks') :
                        /\ t.kind = "cmd" /\ t.page = p
                        /\ t.pc = "fetch" /\ t.calls = <<"list">>
                        /\ t.seq = fetches' ]_vars

\* a second panel has been created after the first was disposed
C2_Witness ==
    /\ Len(panels) = 2
    /\ panels[1].disposed
    /\ manageReposPage = 2

----------------------------------------------------------------------------
(* C3 *)

\* the mutating call an invocation for message type ty issues
MutatingCall(ty) ==
    CASE ty = ADD_NEW -> "add"
      [] ty = DELETE -> "remove"
      [] ty = ENABLE_DISABLE -> "enable"
      [] OTHER -> "none"

NoPageLog == <<"Refreshing manage repos page but it doesn't exist">>

\* C3 as claimed: after every successful mutating operation a fresh fetch is
\* issued and its result replaces the displayed content before the handler
\* completes.
C3_Original ==
    \A t \in Completed :
        (t.kind = "msg" /\ t.mutated = "ok") =>
            /\ t.calls = <<MutatingCall(t.type), "list">>
            /\ t.fetched = "ok"
            /\ t.wrote # 0
            /\ panels[t.wrote].html = generateManageReposHtml(t.list)

\* C3 as amended: after a successful add or remove a fetch is issued if a panel
\* is live when the call returns, and its result replaces the content of the
\* live panel before the handler completes if the fetch succeeds and a panel is
\* live when it returns; after a successful enablement no fetch is issued and
\* nothing is replaced.
C3_Amended ==
    \A t \in Completed :
        (t.kind = "msg" /\ t.mutated = "ok") =>
            IF t.type = ENABLE_DISABLE
            THEN t.calls = <<"enable">> /\ t.wrote = 0
            ELSE \/ /\ t.calls = <<MutatingCall(t.type)>>
                    /\ manageReposPage = 0
                    /\ t.logs = NoPageLog
                    /\ t.wrote = 0
                 \/ /\ t.calls = <<MutatingCall(t.type), "list">>
                    /\ (t.fetched = "ok" /\ manageReposPage # 0) =>
                          /\ t.wrote = manageReposPage
                          /\ panels[t.wrote].html = generateManageReposHtml(t.list)

\* an add has succeeded and the list fetched after it is displayed
C3_Witness ==
    \E t \in Completed :
        /\ t.type = ADD_NEW /\ t.mutated = "ok" /\ t.wrote # 0
        /\ HasRepo(panels[t.wrote].html.rows, t.repoUrl)

----------------------------------------------------------------------------
(* C4 *)

\* what refreshPage, called after the calls before, has done by the time the
\* invocation t completes
Refreshed(t, before) ==
    \/ /\ t.calls = before
       /\ manageReposPage = 0
       /\ t.logs = NoPageLog
       /\ t.wrote = 0
    \/ /\ t.calls = Append(before, "list")
       /\ IF t.fetched = "ok" /\ manageReposPage # 0
          THEN /\ t.wrote = manageReposPage
               /\ panels[t.wrote].html = generateManageReposHtml(t.list)
          ELSE t.wrote = 0

\* C4: when the enablement call fails the handler does what an explicit
\* refresh does, so that the content displayed when it completes is the
\* rendering of the list fetched after the failure.
C4_EnableFailureRefreshes ==
    \A t \in Completed :
        /\ t.type = REFRESH => Refreshed(t, <<>>)
        /\ (t.type = ENABLE_DISABLE /\ t.mutated = "err") => Refreshed(t, <<"enable">>)

\* an enablement has failed after its first entry was applied, and the list
\* displayed is the one fetched after it, with that entry's change
C4_Witness ==
    \E t \in Completed :
        /\ t.type = ENABLE_DISABLE /\ t.mutated = "err" /\ t.wrote # 0
        /\ panels[t.wrote].html.rows = t.list
        /\ \E i \in 1..Len(t.list) : ~t.list[i].enabled

----------------------------------------------------------------------------
(* C5 *)

\* C5 as claimed: when a delete handler whose remove succeeded completes, the
\* list displayed is exactly the backend's list at that time.
C5_Original ==
    \A t \in Completed :
        (t.type = DELETE /\ t.mutated = "ok") =>
            /\ manageReposPage # 0
            /\ panels[manageReposPage].html =
                   generateManageReposHtml(backend[t.conn])

\* C5 as amended: when a delete handler whose remove succeeded completes, and
\* the fetch that followed the removal succeeded and a panel is live, the list
\* displayed is exactly the list that fetch returned (no extra and no missing
\* entry); the backend's list may have changed since.
C5_Amended ==
    \A t \in Completed :
        (t.type = DELETE /\ t.mutated = "ok" /\ t.fetched = "ok"
            /\ manageReposPage # 0) =>
            /\ t.wrote = manageReposPage
            /\ panels[manageReposPage].html = generateManageReposHtml(t.list)
            /\ panels[manageReposPage].html.rows = t.list

\* a delete has succeeded and the list displayed when its handler completes is
\* the fetched one, which is no longer the backend's
C5_Witness ==
    \E t \in Completed :
        /\ t.type = DELETE /\ t.mutated = "ok" /\ t.wrote = manageReposPage
        /\ t.wrote # 0
        /\ panels[t.wrote].html.rows = t.list
        /\ t.list # backend[t.conn]

----------------------------------------------------------------------------
(* C6 *)

\* C6: when the add or the remove call fails, the handler shows one error
\* notification, issues no fetch and replaces no content.
C6_FailedAddOrDelete ==
    [][ \A t \in Completed' :
          (t.type \in {ADD_NEW, DELETE} /\ t.mutated = "err") =>
              /\ t.notes = <<IF t.type = ADD_NEW
                             THEN "Error adding new template repository"
                             ELSE "Error deleting template repository">>
              /\ t.calls = <<MutatingCall(t.type)>>
              /\ t.fetched = "none"
              /\ t.wrote = 0
              /\ fetches' = fetches
              /\ panels' = panels ]_vars

\* a remove has failed while a list was displayed
C6_Witness ==
    \E t \in Completed :
        /\ t.type = DELETE /\ t.mutated = "err"
        /\ manageReposPage # 0
        /\ panels[manageReposPage].html.rendered

----------------------------------------------------------------------------
(* C7 *)

RecognizedTypes == {ADD_NEW, DELETE, HELP, REFRESH, ENABLE_DISABLE}

\* C7: the handler of a help message or of a message of an unrecognized type
\* completes at once, issues no Repository Client call and changes neither the
\* panel nor its content; the unrecognized message is only logged.
C7_HelpAndUnknown ==
    [][ /\ \A t \in Completed' :
              (t.kind = "msg" /\ t.type \notin RecognizedTypes \ {HELP}) =>
                  /\ t.calls = <<>> /\ t.prompts = 0 /\ t.wrote = 0
                  /\ UNCHANGED <<manageReposPage, panels, backend, fetches>>
                  /\ IF t.type = HELP
                     THEN t.logs = <<>> /\ Len(t.notes) = 1
                     ELSE /\ t.notes = <<>>
                          /\ t.logs =
                               <<"Received unknown event from manage templates webview:">>
        /\ \A t \in Running' :
              t.kind = "msg" => t.type \in RecognizedTypes \ {HELP} ]_vars

\* a message of an unrecognized type has been handled while a list was displayed
C7_Witness ==
    \E t \in Completed :
        /\ t.type = "enable-disable"
        /\ manageReposPage # 0
        /\ panels[manageReposPage].html.rendered

----------------------------------------------------------------------------
(* C8 *)

\* a failure was raised while invocation t ran
Failed(t) == t.raised > 0

\* invocation t reported a failure: an error was logged or shown
Reported(t) == t.logs # <<>> \/ t.notes # <<>>

\* C8 as claimed: no failure raised while a message is handled leaves the
\* handler: it completes normally, the failure is reported, and the panel
\* stays live with its message handler.
C8_Original ==
    \A t \in Completed :
        (t.kind = "msg" /\ Failed(t)) =>
            /\ t.outcome = "resolved"
            /\ Reported(t)

\* C8 as amended: no failure raised while a message is handled leaves the
\* handler: it completes normally and the panel, if one is live, stays live
\* with its message handler; the failure is logged or shown, except the failure
\* of the enablement call, which is answered by a refresh and reported nowhere.
C8_Amended ==
    [][ \A t \in Completed' :
          t.kind = "msg" =>
              /\ t.outcome = "resolved"
              /\ Failed(t) =>
                    /\ \/ Reported(t)
                       \/ t.type = ENABLE_DISABLE /\ t.mutated = "err" /\ t.raised = 1
                    /\ manageReposPage' = manageReposPage
                    /\ LivePanels' = LivePanels
                    /\ \A p \in LivePanels' :
                          panels'[p].onDidReceiveMessage = panels[p].onDidReceiveMessage
                    /\ \A p \in LivePanels' :
                          Len(panels'[p].onDidReceiveMessage) = 1 ]_vars

\* a refresh handler whose fetch failed has completed normally with the failure
\* logged, while another handler that has raised is still running, and the panel
\* is still live
C8_Witness ==
    /\ posted = 2
    /\ manageReposPage # 0
    /\ \E t \in Completed :
          /\ t.type = REFRESH /\ t.fetched = "err"
          /\ t.outcome = "resolved" /\ Len(t.logs) = 2
    /\ \E t \in Running : t.kind = "msg" /\ t.raised > 0

----------------------------------------------------------------------------
(* C9 *)

\* a backend call fails, or its failure is handled, in this step
FailureStep ==
    \/ \E t \in BagToSet(tasks') :
          t.resp = "err" /\ CopiesIn(t, tasks') > CopiesIn(t, tasks)
    \/ \E t \in Running :
          t.resp = "err" /\ CopiesIn(t, tasks') < CopiesIn(t, tasks)

\* C9: a step in which a backend call fails or its failure is handled neither
\* disposes a panel nor replaces its content, and the content of a live panel
\* is replaced only by a refresh whose fetch succeeded, with the rendering of
\* the fetched list.
C9_FailuresKeepContent ==
    [][ /\ FailureStep =>
              /\ manageReposPage' = manageReposPage
              /\ panels' = panels
        /\ \A p \in LivePanels' \cap DOMAIN panels :
              panels'[p].html # panels[p].html =>
                  \E t \in Completed' :
                      /\ t.fetched = "ok" /\ t.wrote = p
                      /\ panels'[p].html = generateManageReposHtml(t.list) ]_vars

\* a refresh has failed while the list of an earlier refresh is displayed
C9_Witness ==
    \E t \in Completed :
        /\ t.fetched = "err"
        /\ manageReposPage # 0
        /\ panels[manageReposPage].html.rendered

----------------------------------------------------------------------------
(* C10 *)

\* no refresh is waiting for its fetch
NoFetchInFlight == \A t \in Running : t.pc # "fetch"

\* C10 as claimed: once the refreshes on a live panel have all completed, the
\* content displayed is the rendering of the result of the most recently
\* issued fetch among those that succeeded.
C10_Original ==
    (manageReposPage # 0 /\ NoFetchInFlight
        /\ panels[manageReposPage].latest.seq > 0) =>
        panels[manageReposPage].html =
            generateManageReposHtml(panels[manageReposPage].latest.list)

----------------------------------------------------------------------------
(* C11 *)

\* the continuation of invocation t calls refreshPage
CallsRefresh(t) ==
    \/ t.pc \in {"add", "remove"} /\ t.resp = "ok"
    \/ t.pc = "enable" /\ t.resp = "err"

\* C11: a refreshPage called while no panel exists logs the inconsistency and
\* returns: it issues no fetch, writes no content and raises nothing, and its
\* caller completes normally.
C11_RefreshWithoutPage ==
    [][ \A t \in Running :
          (manageReposPage = 0 /\ CallsRefresh(t)
              /\ CopiesIn(t, tasks') < CopiesIn(t, tasks)) =>
              /\ \E t2 \in Completed' :
                    /\ t2.logs = t.logs \o NoPageLog
                    /\ t2.calls = t.calls
                    /\ t2.notes = t.notes
                    /\ t2.fetched = "none" /\ t2.wrote = 0 /\ t2.seq = 0
                    /\ t2.raised = t.raised + (IF t.resp = "err" THEN 1 ELSE 0)
                    /\ t2.outcome = "resolved"
              /\ fetches' = fetches
              /\ panels' = panels
              /\ manageReposPage' = 0 ]_vars

\* the panel was disposed while a remove was in progress, and the refresh that
\* followed the remove found no panel
C11_Witness ==
    /\ manageReposPage = 0
    /\ \E t \in Completed :
          /\ t.type = DELETE /\ t.mutated = "ok"
          /\ t.logs = NoPageLog /\ t.calls = <<"remove">>

----------------------------------------------------------------------------
(* C12 *)

\* the type strings of the protocol as the specification names them
ProtocolTypes == {"add-new", "delete", "enable-disable", "help", "refresh"}

UnknownLog == <<"Received unknown event from manage templates webview:">>

\* the handler took the default branch for the message of invocation t
RoutedToDefault(t) == Len(t.logs) > 0 /\ t.logs[1] = UnknownLog[1]

\* the handler took, for the message of invocation t, the branch of its type
OwnBranch(t) ==
    CASE t.type = ADD_NEW -> t.prompts >= 1
      [] t.type = DELETE -> Len(t.calls) >= 1 /\ t.calls[1] = "remove"
      [] t.type = ENABLE_DISABLE -> Len(t.calls) >= 1 /\ t.calls[1] = "enable"
      [] t.type = HELP ->
            /\ t.calls = <<>>
            /\ t.notes = <<"More information about this page, or open a webpage, probably">>
      [] t.type = REFRESH ->
            \/ Len(t.calls) >= 1 /\ t.calls[1] = "list"
            \/ t.logs = NoPageLog
      [] OTHER -> FALSE

\* C12 as claimed: a message of any of the five types add-new, delete,
\* enable-disable, help, refresh is routed to a branch of its own and never to
\* the branch of unrecognized types.
C12_Original ==
    \A t \in BagToSet(tasks) :
        (t.kind = "msg" /\ t.type \in ProtocolTypes) => ~RoutedToDefault(t)

\* C12 as amended: a message of any of the five types add-new, delete,
\* enableOrDisable, help, refresh is routed to the branch of its type and never
\* to the branch of unrecognized types; a message of type enable-disable is not
\* recognized: it is routed to the branch of unrecognized types, which only
\* logs it.
C12_Amended ==
    \A t \in BagToSet(tasks) :
        t.kind = "msg" =>
            /\ t.type \in RecognizedTypes => OwnBranch(t) /\ ~RoutedToDefault(t)
            /\ t.type = "enable-disable" =>
                  /\ t.logs = UnknownLog
                  /\ t.calls = <<>> /\ t.notes = <<>> /\ t.prompts = 0
                  /\ t.pc = "done"

\* an enableOrDisable message has led to the enablement call, and then an
\* enable-disable message has been logged as unknown
C12_Witness ==
    /\ \E t \in Running : t.type = ENABLE_DISABLE /\ t.calls = <<"enable">>
    /\ \E t \in Completed : t.type = "enable-disable" /\ t.logs = UnknownLog

----------------------------------------------------------------------------
(* C13 *)

\* the input parses as an absolute URL with a host and the scheme http or https
ProperHttpUrl(input) ==
    LET u == ParseUrl(input)
    IN  /\ u.ok
        /\ u.host # <<>>
        /\ u.protocol \in {Http \o <<":">>, Https \o <<":">>}

\* "not-a-url" and the URLs of any scheme other than http and https
NotHttpExamples ==
    {UrlNotAUrl} \cup
    { scheme \o <<":","/","/">> \o host \o path :
          scheme \in ValidateSchemes \ {Http, Https},
          host \in ValidateHosts \ {<<>>}, path \in ValidatePaths }

\* C13 as claimed: the validator answers with the generic http(s) message every
\* input that is not an absolute URL with a host and the scheme http or https,
\* "not-a-url" and the URLs of other schemes among them.
C13_Original ==
    shown # NotValidated =>
        /\ ~ProperHttpUrl(typed) => shown = MsgNotHttp
        /\ typed \in NotHttpExamples => shown = MsgNotHttp

----------------------------------------------------------------------------
(* C14 *)

Providers ==
    { [label |-> "GitHub", name |-> Github],
      [label |-> "Bitbucket", name |-> Bitbucket],
      [label |-> "GitLab", name |-> Gitlab] }

\* the URL is in the raw-file form of the provider: a raw host for GitHub, a
\* raw path for Bitbucket and GitLab
RawForm(provider, u) ==
    IF provider.label = "GitHub" THEN Includes(u.host, Raw)
    ELSE Includes(u.pathname, Raw)

\* C14: for an http(s) URL whose host names one of the providers GitHub,
\* Bitbucket, GitLab the validator answers valid exactly when the URL is in the
\* provider's raw-file form, and the provider's raw-link hint otherwise; for an
\* http(s) URL of any other host it answers valid.  The GitHub page URL gets
\* the GitHub hint and the raw.githubusercontent.com URL is valid.
C14_ProviderRawLinks ==
    shown # NotValidated =>
        /\ ProperHttpUrl(typed) =>
              LET u == ParseUrl(typed)
                  matched == {P \in Providers : Includes(u.host, P.name)}
              IN  /\ matched = {} => shown = MsgValid
                  /\ \A P \in matched :
                        matched = {P} =>
                            shown = IF RawForm(P, u) THEN MsgValid
                                    ELSE getRawLinkMsg(P.label)
        /\ typed = UrlRawGithubIndex => shown = MsgValid
        /\ typed = UrlGithubIndex =>
              shown = <<"For ", "GitHub", " URLs, you must use the raw link.">>

\* the GitHub page URL has been validated and the GitHub hint is shown
C14_Witness ==
    /\ typed = UrlGithubIndex
    /\ shown = getRawLinkMsg("GitHub")

----------------------------------------------------------------------------
(* C15 *)

\* the URL input box of the add-new invocation t was cancelled
Cancelled(t) ==
    /\ t.kind = "msg" /\ t.type = ADD_NEW
    /\ t.repoUrl = <<>> /\ t.raised = 0

\* C15: when the URL input box of an add-new event is cancelled, the handler
\* returns with no effect: the description input box is not shown, neither
\* the add nor the list request is issued, nothing is shown or logged, and
\* the panel, its content and the backend are unchanged.
C15_CancelHasNoEffect ==
    [][ \A t \in Completed' :
          Cancelled(t) =>
              /\ t.prompts = 1
              /\ t.calls = <<>>
              /\ t.notes = <<>> /\ t.logs = <<>>
              /\ t.wrote = 0 /\ t.mutated = "none" /\ t.fetched = "none"
              /\ t.outcome = "resolved"
              /\ UNCHANGED <<manageReposPage, panels, backend, fetches>> ]_vars

\* the URL input box has been cancelled while a list was displayed
C15_Witness ==
    \E t \in Completed :
        /\ Cancelled(t) /\ t.prompts = 1
        /\ manageReposPage # 0
        /\ panels[manageReposPage].html.rendered

----------------------------------------------------------------------------
(* C16 *)

MutatingCalls == {"add", "remove", "enable"}

\* the number of mutating calls among the calls
RECURSIVE CountMutating(_)
CountMutating(calls) ==
    IF calls = <<>> THEN 0
    ELSE (IF Head(calls) \in MutatingCalls THEN 1 ELSE 0) + CountMutating(Tail(calls))

\* C16 as claimed: an invocation issues at most one mutating call, a failed
\* mutating call is not issued again, and its failure is surfaced once.
C16_Original ==
    \A t \in BagToSet(tasks) :
        /\ CountMutating(t.calls) <= 1
        /\ (t.pc = "done" /\ t.mutated = "err") =>
              /\ CountMutating(t.calls) = 1
              /\ Len(t.notes) = 1

\* C16 as amended: an invocation issues at most one mutating call, the one of
\* its message type, and a failed mutating call is not issued again; the
\* failure of an add or a remove is shown once and logged once, the failure of
\* an enablement is not shown.
C16_Amended ==
    \A t \in BagToSet(tasks) :
        /\ CountMutating(t.calls) <= 1
        /\ \A i \in 1..Len(t.calls) :
              t.calls[i] \in MutatingCalls =>
                  t.kind = "msg" /\ t.calls[i] = MutatingCall(t.type) /\ i = 1
        /\ (t.pc = "done" /\ t.mutated = "err") =>
              /\ CountMutating(t.calls) = 1
              /\ IF t.type = ENABLE_DISABLE
                 THEN t.notes = <<>>
                 ELSE Len(t.notes) = 1 /\ Len(t.logs) = 1

\* an add has failed (the repository is already in the list) and its handler
\* has completed
C16_Witness ==
    \E t \in Completed :
        /\ t.type = ADD_NEW /\ t.mutated = "err"
        /\ t.calls = <<"add">> /\ Len(t.notes) = 1

----------------------------------------------------------------------------
(* C17 *)

\* C17: the URL of every add request is the trimmed text of an input the
\* validator accepted, and the validator accepts it.
C17_AddOnlyValidated ==
    \A t \in BagToSet(tasks) :
        (\E i \in 1..Len(t.calls) : t.calls[i] = "add") =>
            /\ validateRepoInput(t.repoUrl) = MsgValid
            /\ \E input \in PromptInputs :
                  /\ validateRepoInput(input) = MsgValid
                  /\ t.repoUrl = Trim(input)

\* the add request has been issued for the input " https://y/t.json ", trimmed
C17_Witness ==
    \E t \in BagToSet(tasks) :
        /\ t.calls = <<"add">>
        /\ t.repoUrl = UrlY
        /\ UrlYPadded # UrlY

----------------------------------------------------------------------------
(* C18 *)

\* C18 as claimed: a refresh writes its result only into the panel it was
\* started for, whose message handler is bound to the connection it fetched
\* from; it never writes into a panel created later.
C18_Original ==
    \A t \in Completed :
        t.wrote # 0 =>
            /\ t.wrote = t.page
            /\ panels[t.wrote].onDidReceiveMessage = <<t.conn>>

----------------------------------------------------------------------------
(* C19 *)

\* C19 as claimed: the refresh started by the command never ends as a rejected
\* promise nobody handles: it completes normally, and a failure raised in it
\* is reported.
C19_Original ==
    \A t \in Completed :
        t.kind = "cmd" =>
            /\ t.outcome = "resolved"
            /\ Failed(t) => Reported(t)

----------------------------------------------------------------------------
(* C20 *)

AddOrDeleteErrors ==
    {"Error adding new template repository", "Error deleting template repository"}

\* C20 as claimed: the add or delete error notification is shown only when the
\* add or the remove call itself failed.
C20_Original ==
    \A t \in Completed :
        (\E i \in 1..Len(t.notes) : t.notes[i] \in AddOrDeleteErrors) =>
            t.mutated = "err"

====
